---------------------------- MODULE Spec2Model ----------------------------
(***************************************************************************)
(* A model of ci/fireci/setup.py, the packaging descriptor of fireci.      *)
(*                                                                         *)
(* The descriptor is a script: loading it runs, in order,                  *)
(*   line 20      os.chdir(os.path.abspath(os.path.dirname(__file__)))     *)
(*   line 22      requires = []                                            *)
(*   line 37      find_packages(exclude=['tests'])   (an argument of 24)   *)
(*   lines 24-41  setup(name=..., install_requires=..., packages=...,      *)
(*                      entry_points=...)                                  *)
(* The state is the process running it (its working directory, __file__,   *)
(* its position, the module-level names) on a file system holding the      *)
(* project's directory tree, and what setup() was handed.  Strings are     *)
(* sequences of one-character strings, so that splitting, matching and     *)
(* path normalisation are computed and not assumed.                        *)
(***************************************************************************)
EXTENDS Naturals, Integers, Sequences, FiniteSets, TLC

VARIABLES
    fs,           \* the directory tree: absolute directory -> has __init__.py
    cwd,          \* the process's current working directory (absolute parts)
    startCwd,     \* the working directory the process was started in
    file,         \* __file__ as the interpreter set it: [abs, parts]
    pc,           \* the position in the script
    requires,     \* the module-level name `requires` (line 22)
    walkRoot,     \* the absolute directory find_packages walked ('.')
    packages,     \* what find_packages returned
    dist,         \* the keyword arguments setup() received
    err,          \* the exception the load raised, or "none"
    builds,       \* how many build invocations were started
    prevPackages, \* the package set the previous invocation handed to setup()
    lastRun       \* the last run of an installed console script

vars == <<fs, cwd, startCwd, file, pc, requires, walkRoot, packages, dist,
          err, builds, prevPackages, lastRun>>

-----------------------------------------------------------------------------
(* Bounds of the model.                                                    *)

\* Build invocations against the one unchanged tree.
MaxBuilds == 2

\* Longest argument vector a console script is run with.
MaxArgs == 2

-----------------------------------------------------------------------------
(* Characters and strings.                                                 *)

Range(s) == {s[i] : i \in 1..Len(s)}

\* The position of the first element of s that is in set cs, or 0.
RECURSIVE FirstIn(_, _, _)
FirstIn(s, cs, i) ==
    IF i > Len(s) THEN 0
    ELSE IF s[i] \in cs THEN i
    ELSE FirstIn(s, cs, i + 1)

\* The position of the first element of s from i on that is not in cs, or
\* Len(s) + 1.
RECURSIVE FirstNotIn(_, _, _)
FirstNotIn(s, cs, i) ==
    IF i > Len(s) THEN Len(s) + 1
    ELSE IF s[i] \notin cs THEN i
    ELSE FirstNotIn(s, cs, i + 1)

\* str.strip(): leading and trailing blanks removed.
RECURSIVE Strip(_)
Strip(s) ==
    IF s = <<>> THEN s
    ELSE IF Head(s) = " " THEN Strip(Tail(s))
    ELSE IF s[Len(s)] = " " THEN Strip(SubSeq(s, 1, Len(s) - 1))
    ELSE s

\* sep.join(parts)
RECURSIVE Join(_, _)
Join(parts, sep) ==
    IF parts = <<>> THEN <<>>
    ELSE IF Len(parts) = 1 THEN parts[1]
    ELSE parts[1] \o sep \o Join(Tail(parts), sep)

UpperCase == <<"A","B","C","D","E","F","G","H","I","J","K","L","M",
               "N","O","P","Q","R","S","T","U","V","W","X","Y","Z">>
LowerCase == <<"a","b","c","d","e","f","g","h","i","j","k","l","m",
               "n","o","p","q","r","s","t","u","v","w","x","y","z">>

\* str.lower()
Lower(s) ==
    [i \in 1..Len(s) |->
        IF s[i] \in Range(UpperCase)
        THEN LowerCase[FirstIn(UpperCase, {s[i]}, 1)]
        ELSE s[i]]

-----------------------------------------------------------------------------
(* Paths.  A path string is [abs |-> whether it starts with "/",           *)
(* parts |-> its components]; a directory of the file system is the        *)
(* sequence of components of its absolute, normalised path.                *)

DotDot == <<".", ".">>
Dot == <<".">>

\* A slip: the path itself (os.path.abspath(__file__), dirname forgotten).
dirname_id(p) == p

\* os.path.dirname: everything before the last component.
dirname(p) ==
    [abs |-> p.abs,
     parts |-> IF p.parts = <<>> THEN <<>>
               ELSE SubSeq(p.parts, 1, Len(p.parts) - 1)]

\* os.path.normpath on the components of an absolute path: "." and empty
\* components dropped, ".." removes the component before it (and is dropped
\* at the root).
RECURSIVE normparts(_, _)
normparts(done, todo) ==
    IF todo = <<>> THEN done
    ELSE IF Head(todo) = Dot \/ Head(todo) = <<>>
         THEN normparts(done, Tail(todo))
    ELSE IF Head(todo) = DotDot
         THEN normparts(IF done = <<>> THEN done
                        ELSE SubSeq(done, 1, Len(done) - 1), Tail(todo))
    ELSE normparts(Append(done, Head(todo)), Tail(todo))

\* os.path.abspath(p) in a process whose working directory is wd:
\* normpath(join(getcwd(), p)).
abspath(wd, p) ==
    normparts(<<>>, IF p.abs THEN p.parts ELSE wd \o p.parts)

\* The length of the longest common prefix of two sequences.
RECURSIVE CommonLen(_, _)
CommonLen(a, b) ==
    IF a = <<>> \/ b = <<>> \/ Head(a) # Head(b) THEN 0
    ELSE 1 + CommonLen(Tail(a), Tail(b))

\* The relative path string that names absolute path `to` from directory
\* `from` (what a user in `from` types to name `to`).
RelativeTo(from, to) ==
    LET c == CommonLen(from, to)
    IN  [abs |-> FALSE,
         parts |-> [i \in 1..(Len(from) - c) |-> DotDot]
                   \o SubSeq(to, c + 1, Len(to))]

-----------------------------------------------------------------------------
(* The file system.  The descriptor is /proj/setup.py; /other is a         *)
(* directory outside the project.  A tree gives every candidate directory  *)
(* one of "absent", "dir" (no __init__.py) and "pkg" (with __init__.py).   *)

N_proj == <<"p","r","o","j">>
N_other == <<"o","t","h","e","r">>
N_setup_py == <<"s","e","t","u","p",".","p","y">>
N_a == <<"a">>
N_b == <<"b">>
N_tests == <<"t","e","s","t","s">>
N_unit == <<"u","n","i","t">>
N_x == <<"x">>

RootDir == <<>>
DescriptorDir == <<N_proj>>
OtherDir == <<N_other>>
DescriptorFile == <<N_proj, N_setup_py>>

FixedDirs == {RootDir, DescriptorDir, OtherDir}

CandidateDirs ==
    { <<N_proj, N_a>>, <<N_proj, N_a, N_b>>, <<N_proj, N_a, N_tests>>,
      <<N_proj, N_tests>>, <<N_proj, N_tests, N_unit>>,
      <<N_other, N_x>> }

AllDirs == FixedDirs \cup CandidateDirs

Parent(d) == SubSeq(d, 1, Len(d) - 1)

\* The candidates that hold no candidate themselves.
LeafDirs == {d \in CandidateDirs : \A e \in CandidateDirs : Parent(e) # d}

\* The trees: the fixed directories exist (and are no packages), and a
\* directory exists only inside one that exists.  A leaf without an
\* __init__.py holds nothing a walk can find, so a leaf is a package or
\* absent.
Trees ==
    { t \in [AllDirs -> {"absent", "dir", "pkg"}] :
        /\ \A d \in FixedDirs : t[d] = "dir"
        /\ \A d \in LeafDirs : t[d] # "dir"
        /\ \A d \in CandidateDirs : t[d] # "absent" => t[Parent(d)] # "absent" }

IsDir(t, d) == d \in AllDirs /\ t[d] # "absent"

\* os.listdir restricted to directories: the names of d's subdirectories.
SubDirs(t, d) ==
    { c[Len(c)] : c \in { e \in AllDirs : /\ Len(e) = Len(d) + 1
                                          /\ Parent(e) = d
                                          /\ t[e] # "absent" } }

-----------------------------------------------------------------------------
(* setuptools.find_packages, as line 37 calls it.                          *)

\* fnmatch.fnmatchcase(name, pat) for patterns of literals, "*" and "?".
RECURSIVE fnmatchcase(_, _)
fnmatchcase(n, p) ==
    IF p = <<>> THEN n = <<>>
    ELSE IF Head(p) = "*"
         THEN fnmatchcase(n, Tail(p))
              \/ (n # <<>> /\ fnmatchcase(Tail(n), p))
    ELSE IF Head(p) = "?"
         THEN n # <<>> /\ fnmatchcase(Tail(n), Tail(p))
    ELSE n # <<>> /\ Head(n) = Head(p) /\ fnmatchcase(Tail(n), Tail(p))

\* _Finder._build_filter: true of a name that matches one of the patterns.
build_filter(patterns, n) == \E p \in patterns : fnmatchcase(n, p)

\* PackageFinder.ALWAYS_EXCLUDE
ALWAYS_EXCLUDE == { <<"e","z","_","s","e","t","u","p">>, <<"*","_","_","p","y","c","a","c","h","e","_","_">> }

\* The default of find_packages' include parameter: ('*',)
DefaultInclude == { <<"*">> }

\* A slip: no exclude argument.
exclude_none == {}

\* The exclude argument of line 37: ['tests']
exclude == { N_tests }

\* PackageFinder._looks_like_package: the directory holds an __init__.py.
looks_like_package(t, full) == full \in AllDirs /\ t[full] = "pkg"

\* PackageFinder._find_iter under os.walk: the packages found below
\* root \o rel, named by their dotted path relative to root.  A directory
\* that is no package (or has a "." in its name) is not descended into; an
\* excluded package is.
RECURSIVE find_iter(_, _, _, _, _)
find_iter(t, root, rel, excl, incl) ==
    UNION {
        LET full == root \o rel \o <<d>>
            package == Join(rel \o <<d>>, <<".">>)
        IN  IF "." \in Range(d) \/ ~looks_like_package(t, full)
            THEN {}
            ELSE (IF build_filter(incl, package) /\ ~build_filter(excl, package)
                  THEN {package} ELSE {})
                 \cup find_iter(t, root, rel \o <<d>>, excl, incl)
        : d \in SubDirs(t, root \o rel) }

\* find_packages(where='.', exclude=excl): the walk starts at the working
\* directory.
find_packages(t, wd, excl) ==
    find_iter(t, abspath(wd, [abs |-> FALSE, parts |-> <<Dot>>]), <<>>,
              ALWAYS_EXCLUDE \cup excl, DefaultInclude)

-----------------------------------------------------------------------------
(* The descriptor's literals (lines 24-41).                                *)

\* name='fireci'
setup_name == <<"f","i","r","e","c","i">>

\* version='0.1'
setup_version == <<"0",".","1">>

\* A slip: a library added a second time, with a range.
install_requires_dup ==
    << <<"p","r","o","t","o","b","u","f","=","=","3",".","1","9">>,
       <<"c","l","i","c","k","=","=","7",".","0">>,
       <<"g","o","o","g","l","e","-","c","l","o","u","d","-","s","t","o","r","a","g","e","=","=","1",".","4","4",".","0">>,
       <<"n","u","m","p","y","=","=","1",".","1","9",".","5">>,
       <<"P","y","G","i","t","h","u","b","=","=","1",".","4","3",".","8">>,
       <<"p","y","s","t","a","c","h","e","=","=","0",".","5",".","4">>,
       <<"r","e","q","u","e","s","t","s","=","=","2",".","2","3",".","0">>,
       <<"P","y","Y","A","M","L","=","=","6",".","0",".","0">>,
       <<"p","y","y","a","m","l",">","=","5",".","4">> >>

\* install_requires=[...], lines 27-36
install_requires ==
    << <<"p","r","o","t","o","b","u","f","=","=","3",".","1","9">>,
       <<"c","l","i","c","k","=","=","7",".","0">>,
       <<"g","o","o","g","l","e","-","c","l","o","u","d","-","s","t","o","r","a","g","e","=","=","1",".","4","4",".","0">>,
       <<"n","u","m","p","y","=","=","1",".","1","9",".","5">>,
       <<"P","y","G","i","t","h","u","b","=","=","1",".","4","3",".","8">>,
       <<"p","y","s","t","a","c","h","e","=","=","0",".","5",".","4">>,
       <<"r","e","q","u","e","s","t","s","=","=","2",".","2","3",".","0">>,
       <<"P","y","Y","A","M","L","=","=","6",".","0",".","0">> >>

\* A slip: the command name bound a second time.
console_scripts_twice ==
    << <<"f","i","r","e","c","i"," ","="," ","f","i","r","e","c","i",".","m","a","i","n",":","c","l","i">>,
       <<"f","i","r","e","c","i"," ","="," ","f","i","r","e","c","i",".","m","a","i","n",":","m","a","i","n">> >>

\* A slip: the command bound to another callable.
console_scripts_main ==
    << <<"f","i","r","e","c","i"," ","="," ","f","i","r","e","c","i",".","m","a","i","n",":","m","a","i","n">> >>

\* entry_points={'console_scripts': [...]}, lines 38-40
console_scripts ==
    << <<"f","i","r","e","c","i"," ","="," ","f","i","r","e","c","i",".","m","a","i","n",":","c","l","i">> >>
entry_points == [console_scripts |-> console_scripts]

\* What the names are before the script binds them.
NoDist ==
    [called |-> FALSE, name |-> <<>>, version |-> <<>>,
     install_requires |-> <<>>, packages |-> {},
     entry_points |-> [console_scripts |-> <<>>]]
Unbound == [bound |-> FALSE, value |-> <<>>]
NoRun ==
    [ran |-> FALSE, argv |-> <<>>, module |-> <<>>, attr |-> <<>>,
     seen |-> <<>>, outcome |-> [kind |-> "return", status |-> 0],
     exit |-> 0]

-----------------------------------------------------------------------------
(* What the packaging tool reads out of the strings setup() was handed.    *)

OpChars == {"<", ">", "=", "!", "~"}

\* A requirement string split into its name, its comparison operator and
\* what follows the operator.
parse_requirement(s) ==
    LET i == FirstIn(s, OpChars, 1)
        j == FirstNotIn(s, OpChars, i)
    IN  IF i = 0
        THEN [name |-> Strip(s), op |-> <<>>, version |-> <<>>]
        ELSE [name |-> Strip(SubSeq(s, 1, i - 1)),
              op |-> SubSeq(s, i, j - 1),
              version |-> Strip(SubSeq(s, j, Len(s)))]

\* An entry-point string "name = module:attr" split at its first "=" and
\* the first ":" after it.
parse_entry_point(s) ==
    LET eq == FirstIn(s, {"="}, 1)
        val == Strip(SubSeq(s, eq + 1, Len(s)))
        col == FirstIn(val, {":"}, 1)
    IN  [name |-> Strip(SubSeq(s, 1, eq - 1)),
         module |-> IF col = 0 THEN val ELSE Strip(SubSeq(val, 1, col - 1)),
         attr |-> IF col = 0 THEN <<>>
                  ELSE Strip(SubSeq(val, col + 1, Len(val)))]

\* The console scripts an installation writes: one per entry-point string.
scripts(d) ==
    [i \in 1..Len(d.entry_points.console_scripts) |->
        parse_entry_point(d.entry_points.console_scripts[i])]

\* The script a command name runs: a later script of the same name
\* overwrites an earlier one.
script_for(d, cmd) ==
    LET ss == scripts(d)
        at == {i \in 1..Len(ss) : ss[i].name = cmd}
    IN  ss[CHOOSE i \in at : \A k \in at : k <= i]

-----------------------------------------------------------------------------
(* The installed command (spec sections 4.1 and 6): a shim that loads the  *)
(* entry point's callable and runs it on the process's arguments.          *)

M_fireci_main == <<"f","i","r","e","c","i",".","m","a","i","n">>
A_cli == <<"c","l","i">>

\* The callables that exist once the package is installed.
InstalledCallables == { [module |-> M_fireci_main, attr |-> A_cli] }

ArgWords == { <<"-","-","h","e","l","p">>, <<"b","u","i","l","d">> }

RECURSIVE SeqsUpTo(_, _)
SeqsUpTo(S, n) ==
    IF n = 0 THEN {<<>>}
    ELSE LET shorter == SeqsUpTo(S, n - 1)
         IN  shorter \cup {Append(q, w) : q \in shorter, w \in S}

ArgVectors == SeqsUpTo(ArgWords, MaxArgs)

\* The exit statuses a callable ends with (a process status is 8 bits).
Statuses == {0, 1, 2, 255}

\* How a run of the callable ends: it returns a status, calls sys.exit
\* with one, or raises.
Outcomes ==
    [kind : {"return", "exit"}, status : Statuses]
        \cup {[kind |-> "raise", status |-> 1]}

\* The status of a process whose main callable ended with outcome o:
\* sys.exit(status), or 1 after an uncaught exception.
exit_status(o) == IF o.kind = "raise" THEN 1 ELSE o.status % 256

\* One run of the shim of script sc with process arguments argv, the
\* callable ending with outcome o when it is called.
shim(sc, argv, o) ==
    IF [module |-> sc.module, attr |-> sc.attr] \in InstalledCallables
    THEN [ran |-> TRUE, argv |-> argv, module |-> sc.module,
          attr |-> sc.attr, seen |-> Tail(argv), outcome |-> o,
          exit |-> exit_status(o)]
    ELSE [ran |-> TRUE, argv |-> argv, module |-> sc.module,
          attr |-> sc.attr, seen |-> <<>>,
          outcome |-> [kind |-> "raise", status |-> 1], exit |-> 1]

-----------------------------------------------------------------------------
(* The process that loads the descriptor.                                  *)

\* The directories a process can be started in.
StartDirs(t) == {d \in AllDirs : IsDir(t, d)}

\* __file__ as the interpreter sets it for a process started in wd: the
\* absolute path, or the relative path it was given ("setup.py",
\* "../proj/setup.py", "./setup.py", ...).
FileForms(wd) ==
    LET rel == RelativeTo(wd, DescriptorFile)
    IN  { [abs |-> TRUE, parts |-> DescriptorFile],
          rel,
          [abs |-> FALSE, parts |-> <<Dot>> \o rel.parts] }

\* A slip: the working directory is left where it was.
ChdirTarget_stay(wd, f) == wd

\* A slip: one dirname too many.
ChdirTarget_parent(wd, f) == abspath(wd, dirname(dirname(f)))

\* Line 20: the argument of os.chdir.
ChdirTarget(wd, f) == abspath(wd, dirname(f))

Init ==
    /\ fs \in Trees
    /\ startCwd \in StartDirs(fs)
    /\ cwd = startCwd
    /\ file \in FileForms(startCwd)
    /\ pc = "chdir"
    /\ requires = Unbound
    /\ walkRoot = RootDir
    /\ packages = {}
    /\ dist = NoDist
    /\ err = "none"
    /\ builds = 1
    /\ prevPackages = {}
    /\ lastRun = NoRun

\* Line 20: os.chdir(os.path.abspath(os.path.dirname(__file__))).  os.chdir
\* raises when its argument is no directory.
Chdir ==
    /\ pc = "chdir"
    /\ LET target == ChdirTarget(cwd, file)
       IN  IF IsDir(fs, target)
           THEN /\ cwd' = target
                /\ pc' = "requires"
                /\ err' = err
           ELSE /\ cwd' = cwd
                /\ pc' = "failed"
                /\ err' = "FileNotFoundError"
    /\ UNCHANGED <<fs, startCwd, file, requires, walkRoot, packages, dist,
                   builds, prevPackages, lastRun>>

\* Line 22: requires = []
AssignRequires ==
    /\ pc = "requires"
    /\ requires' = [bound |-> TRUE, value |-> <<>>]
    /\ pc' = "find"
    /\ UNCHANGED <<fs, cwd, startCwd, file, walkRoot, packages, dist, err,
                   builds, prevPackages, lastRun>>

\* Line 37: find_packages(exclude=['tests']), evaluated before setup() is
\* entered.
FindPackages ==
    /\ pc = "find"
    /\ walkRoot' = abspath(cwd, [abs |-> FALSE, parts |-> <<Dot>>])
    /\ packages' = find_packages(fs, cwd, exclude)
    /\ pc' = "setup"
    /\ UNCHANGED <<fs, cwd, startCwd, file, requires, dist, err, builds,
                   prevPackages, lastRun>>

\* A slip: the module-level `requires` handed over as the dependencies.
SetupArgs_requires(pkgs) ==
    [called |-> TRUE, name |-> setup_name, version |-> setup_version,
     install_requires |-> requires.value, packages |-> pkgs,
     entry_points |-> entry_points]

\* The keyword arguments of the call of lines 24-41.
SetupArgs(pkgs) ==
    [called |-> TRUE, name |-> setup_name, version |-> setup_version,
     install_requires |-> install_requires, packages |-> pkgs,
     entry_points |-> entry_points]

\* Lines 24-41: setup(...)
Setup ==
    /\ pc = "setup"
    /\ dist' = SetupArgs(packages)
    /\ pc' = "done"
    /\ UNCHANGED <<fs, cwd, startCwd, file, requires, walkRoot, packages,
                   err, builds, prevPackages, lastRun>>

\* The build process ends: its own state is gone, what it installed stays.
Exit ==
    /\ pc = "done"
    /\ pc' = "exited"
    /\ cwd' = RootDir
    /\ startCwd' = RootDir
    /\ file' = [abs |-> TRUE, parts |-> DescriptorFile]
    /\ requires' = Unbound
    /\ walkRoot' = RootDir
    /\ packages' = {}
    /\ UNCHANGED <<fs, dist, err, builds, prevPackages, lastRun>>

\* Another build invocation against the unchanged tree, started anywhere.
Rebuild ==
    /\ pc = "exited"
    /\ builds < MaxBuilds
    /\ builds' = builds + 1
    /\ prevPackages' = dist.packages
    /\ startCwd' \in StartDirs(fs)
    /\ cwd' = startCwd'
    /\ file' \in FileForms(startCwd')
    /\ pc' = "chdir"
    /\ dist' = NoDist
    /\ lastRun' = NoRun
    /\ UNCHANGED <<fs, requires, walkRoot, packages, err>>

\* A user runs an installed console script with some arguments.  Runs
\* carry no state from one to the next: one run per installation is
\* followed.
RunCommand ==
    /\ pc = "exited"
    /\ \E i \in 1..Len(scripts(dist)), args \in ArgVectors, o \in Outcomes :
          LET cmd == scripts(dist)[i].name
          IN  lastRun' = shim(script_for(dist, cmd), <<cmd>> \o args, o)
    /\ pc' = "ran"
    /\ UNCHANGED <<fs, cwd, startCwd, file, requires, walkRoot,
                   packages, dist, err, builds, prevPackages>>

Next ==
    \/ Chdir
    \/ AssignRequires
    \/ FindPackages
    \/ Setup
    \/ Exit
    \/ Rebuild
    \/ RunCommand

Spec == Init /\ [][Next]_vars

-----------------------------------------------------------------------------
(* Properties.                                                             *)

\* s split at every occurrence of character c.
RECURSIVE Split(_, _)
Split(s, c) ==
    LET i == FirstIn(s, {c}, 1)
    IN  IF i = 0 THEN <<s>>
        ELSE <<SubSeq(s, 1, i - 1)>> \o Split(SubSeq(s, i + 1, Len(s)), c)

\* The dotted names of the directories below the descriptor's directory.
P_a == <<"a">>
P_a_b == <<"a",".","b">>
P_a_tests == <<"a",".","t","e","s","t","s">>
P_tests == <<"t","e","s","t","s">>
P_tests_unit == <<"t","e","s","t","s",".","u","n","i","t">>

D_a == <<N_proj, N_a>>
D_a_b == <<N_proj, N_a, N_b>>
D_a_tests == <<N_proj, N_a, N_tests>>
D_tests == <<N_proj, N_tests>>
D_tests_unit == <<N_proj, N_tests, N_unit>>
D_x == <<N_other, N_x>>

\* C1: whenever the tree holds a "tests" directory, the package set handed
\* to setup() has no entry equal to "tests" and no entry with "tests" as
\* one of its dotted components.
C1_NoTestsComponent ==
    (pc = "done" /\ IsDir(fs, D_tests))
        => \A p \in dist.packages : N_tests \notin Range(Split(p, "."))

\* C2: on the tree whose packages are exactly a, a.b, tests and tests.unit,
\* discovery returns exactly {a, a.b}.
C2_ExactlyAAndAB ==
    (/\ pc = "done"
     /\ fs[D_a] = "pkg" /\ fs[D_a_b] = "pkg"
     /\ fs[D_tests] = "pkg" /\ fs[D_tests_unit] = "pkg"
     /\ fs[D_a_tests] = "absent")
        => dist.packages = {P_a, P_a_b}

\* C3: exactly one console command is registered, it is named "fireci", it
\* refers to callable cli of module fireci.main, and no command name is
\* bound twice.
C3_OneCommand ==
    (pc = "done" /\ dist.called) =>
        LET ss == scripts(dist)
        IN  /\ Len(ss) = 1
            /\ ss[1].name = setup_name
            /\ ss[1].module = M_fireci_main
            /\ ss[1].attr = A_cli
            /\ \A i, j \in 1..Len(ss) : ss[i].name = ss[j].name => i = j

C3_Witness == pc = "done" /\ dist.called /\ Len(scripts(dist)) >= 1

\* C4: a run of the installed fireci command calls fireci.main:cli, the
\* callable sees every argument of the run unchanged, and the process ends
\* with the status the callable ended with (1 when it raised).
C4_CommandIsCli ==
    lastRun.ran =>
        /\ lastRun.argv[1] = setup_name
        /\ lastRun.module = M_fireci_main
        /\ lastRun.attr = A_cli
        /\ lastRun.seen = Tail(lastRun.argv)
        /\ lastRun.outcome \in Outcomes
        /\ lastRun.outcome.kind # "raise"
              => lastRun.exit = lastRun.outcome.status
        /\ lastRun.outcome.kind = "raise" => lastRun.exit # 0

C4_Witness ==
    /\ lastRun.ran
    /\ Len(lastRun.seen) = 2
    /\ lastRun.outcome.kind = "return"
    /\ lastRun.exit = 2

\* C5: in the dependency list handed to setup() no library name appears
\* twice (case ignored) and every constraint is name==version, one
\* version and no range or wildcard.
C5_UniqueExactPins ==
    (pc = "done" /\ dist.called) =>
        LET rs == [i \in 1..Len(dist.install_requires) |->
                      parse_requirement(dist.install_requires[i])]
        IN  /\ \A i \in 1..Len(rs) :
                  /\ rs[i].name # <<>>
                  /\ rs[i].op = <<"=", "=">>
                  /\ rs[i].version # <<>>
                  /\ Range(rs[i].version) \cap ({",", "*", " "} \cup OpChars) = {}
            /\ \A i, j \in 1..Len(rs) :
                  Lower(rs[i].name) = Lower(rs[j].name) => i = j

C5_Witness == pc = "done" /\ Len(dist.install_requires) = 8

\* The dependencies section 6 of the specification lists, in its order.
ExpectedPins ==
    << << <<"p","r","o","t","o","b","u","f">>,
          <<"3",".","1","9">> >>,
       << <<"c","l","i","c","k">>,
          <<"7",".","0">> >>,
       << <<"g","o","o","g","l","e","-","c","l","o","u","d","-","s","t","o","r","a","g","e">>,
          <<"1",".","4","4",".","0">> >>,
       << <<"n","u","m","p","y">>,
          <<"1",".","1","9",".","5">> >>,
       << <<"P","y","G","i","t","h","u","b">>,
          <<"1",".","4","3",".","8">> >>,
       << <<"p","y","s","t","a","c","h","e">>,
          <<"0",".","5",".","4">> >>,
       << <<"r","e","q","u","e","s","t","s">>,
          <<"2",".","2","3",".","0">> >>,
       << <<"P","y","Y","A","M","L">>,
          <<"6",".","0",".","0">> >> >>

\* C6: the dependency sequence handed to setup() is the declared list, in
\* the declared order, nothing added or removed; the module-level
\* `requires` is empty and is no part of it.
C6_DeclaredVerbatim ==
    (pc = "done" /\ dist.called) =>
        /\ Len(dist.install_requires) = Len(ExpectedPins)
        /\ \A i \in 1..Len(ExpectedPins) :
              LET r == parse_requirement(dist.install_requires[i])
              IN  /\ r.name = ExpectedPins[i][1]
                  /\ r.op = <<"=", "=">>
                  /\ r.version = ExpectedPins[i][2]
        /\ requires.bound
        /\ requires.value = <<>>

C6_Witness ==
    /\ pc = "done"
    /\ requires.bound
    /\ dist.called
    /\ Len(dist.install_requires) > Len(requires.value)

\* C7: every build invocation against the unchanged tree hands setup() the
\* package set the invocation before it did, whatever directory and
\* whatever form of __file__ either was started with.
C7_Deterministic ==
    (dist.called /\ builds > 1) => dist.packages = prevPackages

C7_Witness ==
    /\ pc = "done"
    /\ builds = 2
    /\ startCwd = OtherDir
    /\ fs[D_x] = "pkg"
    /\ dist.packages # {}

\* C8 as stated: after the load the working directory is the one the
\* process was started in.
C8_CwdUnchanged == pc = "done" => cwd = startCwd

\* C8 as amended: the load never fails, and after it the working directory
\* is the descriptor's own directory, which is the starting directory only
\* when the process was started there.
C8_CwdIsDescriptorDir ==
    /\ pc # "failed"
    /\ err = "none"
    /\ pc = "done" =>
          /\ cwd = DescriptorDir
          /\ (cwd = startCwd) = (startCwd = DescriptorDir)

C8_Witness == pc = "done" /\ startCwd = D_a /\ ~file.abs /\ cwd # startCwd

\* C9: discovery starts only once the working directory is the descriptor's
\* directory, and the directory it walks is the descriptor's directory,
\* never the one the process was started in (unless they are the same).
C9_RootIsDescriptorDir ==
    /\ pc = "find" => cwd = DescriptorDir
    /\ pc \in {"setup", "done"} => walkRoot = DescriptorDir

C9_Witness ==
    /\ pc = "setup"
    /\ startCwd = OtherDir
    /\ ~file.abs
    /\ fs[D_x] = "pkg"
    /\ walkRoot # startCwd

\* The tree holds no package discovery can reach, or only "tests".
NoPackageButTests(t) ==
    /\ t[D_a] # "pkg"
    /\ t[D_tests] = "pkg" => t[D_tests_unit] # "pkg"

\* C10: on a tree with no importable package, or with only the package
\* "tests", the load raises nothing and hands setup() the empty package
\* set.
C10_EmptyIsNoError ==
    NoPackageButTests(fs) =>
        /\ pc # "failed"
        /\ err = "none"
        /\ pc = "done" => (dist.called /\ dist.packages = {})

C10_Witness ==
    /\ pc = "done"
    /\ fs[D_tests] = "pkg"
    /\ fs[D_a] = "absent"
    /\ dist.called
    /\ dist.packages = {}

=============================================================================
